---- MODULE Spec2Model ----
(***************************************************************************)
(* Device connection lifecycle and metric ingestion pipeline of the SDC    *)
(* monitor: DeviceController and ConnectionService (sdc_consumer/app),     *)
(* MetricService (app/services/metric_service.py), the device selection    *)
(* of SDCMonitorApp and the DiscoveryService.                              *)
(*                                                                         *)
(* Threads: the callers of DeviceController.connect / disconnect, and the  *)
(* external binding's delivery threads, which invoke                       *)
(* DeviceController._on_metric_update with a raw batch.                    *)
(***************************************************************************)
EXTENDS Integers, Sequences, FiniteSets, TLC

\* ------------------------------------------------------------------ bounds
\* capacity of one history (MetricService.max_points; the program's default
\* is settings.CHART_MAX_POINTS = 100, the model checks a small capacity)
MaxPoints == 2
\* number of process_metric_update invocations explored by the pipeline
\* specifications
MaxCalls == 3
\* number of batches the binding delivers in the lifecycle specifications
MaxDeliveries == 1
\* number of ConnectionService objects a controller creates (connect calls
\* that reach line 35 of device_controller.py)
MaxServices == 2
\* number of WSDiscovery transports a DiscoveryService creates
MaxTransports == 2
\* most records in one result of the transport's search
MaxFound == 2
\* most scopes of one record of the transport
MaxScopes == 2
\* largest limit argument given to get_metric_history
MaxLimit == 3

\* ------------------------------------------------------------ input domains
Callers == {"u1", "u2"}
Deliverers == {"d1", "d2"}
Observers == {"o1", "o2"}

\* metric handles; the device's MDIB holds a descriptor for the first two
Handles == {"metric.hr", "metric.spo2", "metric.xx"}
Described == {"metric.hr", "metric.spo2"}

\* raw metric states of a batch entry: MetricValue absent / None, or a
\* MetricValue whose Value is None, a non-numeric text or a number
NoMetricValue == [MetricValue |-> "absent", Value |-> 0]
NullValue == [MetricValue |-> "null", Value |-> 0]
TextValue == [MetricValue |-> "text", Value |-> 0]
NumberValue(n) == [MetricValue |-> "number", Value |-> n]
MetricStates == {NoMetricValue, NullValue, TextValue, NumberValue(72)}

Entries == [handle : Handles, metric_state : MetricStates]

\* metrics_by_handle is a dict: its entries have distinct handles and are
\* iterated in insertion order
DistinctHandles(b) ==
    \A i, j \in 1..Len(b) : i # j => b[i].handle # b[j].handle

Batches ==
    {<<>>} \cup {<<e>> : e \in Entries}
           \cup {b \in {<<e1, e2>> : e1 \in Entries, e2 \in Entries} : DistinctHandles(b)}

\* ------------------------------------------------------------------- state
VARIABLES
    status,              \* Device.status
    connection_service,  \* DeviceController.connection_service (0 = None)
    services,            \* the ConnectionService objects created so far
    callbacks,           \* which of the controller's callbacks are set
    pc,                  \* position of each caller in connect / disconnect
    self_service,        \* per caller: the ConnectionService whose method runs
    event,               \* controller callback invoked by the last step
    session_live,        \* a connect succeeded and onDisconnected was not yet emitted
    disconnect_returned, \* disconnect() returned and no connect was invoked since
    metric_history,      \* MetricService._metric_history (dict handle -> deque)
    update_callbacks,    \* MetricService._update_callbacks (list)
    clock,               \* datetime.now()
    dpc,                 \* position of each delivery thread
    metrics_by_handle,   \* per delivery: the raw batch
    resolver,            \* per delivery: the connection_service argument
    idx,                 \* per delivery: position of the for loop over the batch
    updated_metrics,     \* per delivery: the samples produced so far
    nidx,                \* per delivery: position of the loop of _notify_callbacks
    notes,               \* per delivery: the observer calls made, in order
    committed,           \* per delivery: the histories when the fan-out began
    ninvoked,            \* number of process_metric_update invocations so far
    callno,              \* per delivery: the number of its invocation
    appended,            \* per handle: every sample given to _add_to_history
    current_device_controller, \* SDCMonitorApp's field: number of the controller, 0 = None
    cancel_requested,    \* disconnect() was invoked in Connecting, no connect() since
    attempt,             \* per caller: what its last connect() did so far
    pending,             \* per delivery: the sample created and not yet appended
    reader,              \* the thread that reads get_all_latest_metrics
    registry_op,         \* the last register / unregister call and the list before it
    cleared,             \* per handle: how many appended samples clear_history dropped
    clear_op,            \* the argument of the last clear_history call; flip changes with each call
    discovery,           \* DiscoveryService.discovery: state of its transport
    is_running,          \* DiscoveryService._is_running
    transports,          \* number of WSDiscovery transports created so far
    call,                \* the last DiscoveryService call and how it ended
    is_searching,        \* DiscoveryController._is_searching
    search_pc,           \* position of search_for_devices and of its executor job
    discovery_event,     \* the DiscoveryController callbacks invoked by the last step
    wsd_services,        \* how the transport's last search_services ended
    devices,             \* what the last search_devices returned
    discovered_devices,  \* DiscoveryController.discovered_devices
    scopes,              \* the scopes of the record given to _extract_location_from_scopes
    location             \* <<the LocationInfo it returned>>, <<>> before the call

lifeVars ==
    <<status, connection_service, services, callbacks, pc, self_service,
      event, session_live, disconnect_returned>>

storeVars == <<metric_history, update_callbacks, clock, ninvoked, appended>>

callVars ==
    <<dpc, metrics_by_handle, resolver, idx, updated_metrics, nidx, notes,
      committed, callno>>

appVars == <<current_device_controller, cancel_requested, attempt>>

serviceVars == <<discovery, is_running, transports, call>>

controllerVars == <<is_searching, search_pc, discovery_event>>

resultVars == <<wsd_services, devices, discovered_devices>>

scopeVars == <<scopes, location>>

discVars == <<serviceVars, controllerVars, resultVars, scopeVars>>

probeVars == <<pending, reader, registry_op, cleared, clear_op>>

vars == <<lifeVars, storeVars, callVars, appVars, discVars, probeVars>>

\* --------------------------------------------------------------- helpers
\* the last n elements of s (all of s when it is shorter)
LastN(s, n) ==
    IF Len(s) <= n THEN s ELSE SubSeq(s, Len(s) - n + 1, Len(s))

\* ------------------------------------------------ ConnectionService (reads)
NoDescriptor == [found |-> FALSE, Unit |-> ""]

\* the code of the unit the MDIB's descriptor of a handle carries
UnitCode(handle) ==
    CASE handle = "metric.hr" -> "bpm"
      [] handle = "metric.spo2" -> "%"
      [] OTHER -> ""

\* ConnectionService.get_metric_descriptor of service s: None without an
\* MDIB, else the MDIB's lookup with allow_none=True
get_metric_descriptor(s, handle) ==
    IF services[s].mdib = "none" THEN NoDescriptor
    ELSE IF services[s].mdib = "inited" /\ handle \in Described
         THEN [found |-> TRUE, Unit |-> UnitCode(handle)]
         ELSE NoDescriptor

\* ------------------------------------------------------------ MetricService
\* settings.METRIC_NAMES.get(handle, handle)
MetricName(handle) ==
    CASE handle = "metric.hr" -> "Heart Rate"
      [] handle = "metric.spo2" -> "SpO2"
      [] handle = "metric.temp" -> "Temperature"
      [] OTHER -> handle

\* float(value): defined for a number, raises for None and for a text
FloatRaises(metric_state) == metric_state.MetricValue # "number"
Float(metric_state) == metric_state.Value

MetricData(handle, value, unit, now) ==
    [handle |-> handle, name |-> MetricName(handle), value |-> value,
     unit |-> unit, timestamp |-> now]

\* a loop body that does not skip an entry whose value is not numeric
ProcessEntryNoCoercionCheck(entry, s, now) ==
    IF entry.metric_state.MetricValue = "absent" THEN <<>>
    ELSE LET descriptor == get_metric_descriptor(s, entry.handle)
         IN  IF ~descriptor.found THEN <<>>
             ELSE <<MetricData(entry.handle, Float(entry.metric_state),
                               descriptor.Unit, now)>>

\* the body of the for loop of process_metric_update for one entry: the
\* samples it produces (none or one); every exception is caught per entry
ProcessEntry(entry, s, now) ==
    IF entry.metric_state.MetricValue = "absent" THEN <<>>
    ELSE LET descriptor == get_metric_descriptor(s, entry.handle)
         IN  IF ~descriptor.found THEN <<>>
             ELSE IF FloatRaises(entry.metric_state) THEN <<>>
             ELSE <<MetricData(entry.handle, Float(entry.metric_state),
                               descriptor.Unit, now)>>

\* a deque that refuses the new element when it is full
DequeAppendKeepOldest(d, x, maxlen) ==
    IF Len(d) >= maxlen THEN d ELSE Append(d, x)

\* a deque that takes the new element at its left end
DequeAppendLeft(d, x, maxlen) ==
    IF Len(d) >= maxlen THEN <<x>> \o SubSeq(d, 1, Len(d) - 1) ELSE <<x>> \o d

\* deque(maxlen).append: a full deque drops its oldest element
DequeAppend(d, x, maxlen) ==
    IF Len(d) >= maxlen THEN Append(Tail(d), x) ELSE Append(d, x)

\* MetricService._add_to_history: the history map after the append
add_to_history(history, metric_data) ==
    LET h == metric_data.handle
        d == IF h \in DOMAIN history THEN history[h] ELSE <<>>
    IN  [x \in (DOMAIN history) \cup {h} |->
            IF x = h THEN DequeAppend(d, metric_data, MaxPoints) ELSE history[x]]

\* the limit argument of get_metric_history: None, or an integer
NoLimit == [given |-> FALSE, n |-> 0]
Limit(n) == [given |-> TRUE, n |-> n]

\* MetricService.get_metric_history (`if limit:` is false for None and for 0)
get_metric_history(handle, limit) ==
    IF handle \notin DOMAIN metric_history THEN <<>>
    ELSE LET history == metric_history[handle]
         IN  IF limit.given /\ limit.n # 0
             THEN IF limit.n > 0
                  THEN LastN(history, limit.n)
                  ELSE SubSeq(history, (0 - limit.n) + 1, Len(history))
             ELSE history

\* MetricService.get_latest_metric: the newest sample of a handle, or None
\* (the empty sequence)
get_latest_metric(handle) ==
    LET history == get_metric_history(handle, NoLimit)
    IN  IF history = <<>> THEN <<>> ELSE <<history[Len(history)]>>

\* a lookup that returns the oldest sample of every handle
get_all_oldest_metrics ==
    [h \in DOMAIN metric_history |->
        LET history == get_metric_history(h, NoLimit)
        IN  IF history = <<>> THEN <<>> ELSE <<history[1]>>]

\* MetricService.get_all_latest_metrics: the newest sample of every handle
get_all_latest_metrics ==
    [h \in DOMAIN metric_history |-> get_latest_metric(h)]

\* a registration that does not look for the observer in the list
register_callback_again(list, callback) ==
    Append(list, callback)

\* MetricService.register_callback
register_callback(list, callback) ==
    IF \E i \in 1..Len(list) : list[i] = callback THEN list
    ELSE Append(list, callback)

\* MetricService.unregister_callback: list.remove drops the first occurrence
unregister_callback(list, callback) ==
    IF \E i \in 1..Len(list) : list[i] = callback
    THEN LET k == CHOOSE i \in 1..Len(list) :
                     /\ list[i] = callback
                     /\ \A j \in 1..(i - 1) : list[j] # callback
         IN  SubSeq(list, 1, k - 1) \o SubSeq(list, k + 1, Len(list))
    ELSE list

\* the handle argument of clear_history: a handle, or None
AllHandles == "None"

\* the handle arguments that `if handle:` takes the else branch for: None
\* and the empty string
Falsy == {AllHandles, ""}

\* MetricService.clear_history: with a handle that is true, the history of
\* that handle is popped when there is one; else the map is emptied
ClearHistory(handle) ==
    /\ metric_history' =
           IF handle \in Falsy THEN <<>>
           ELSE [h \in (DOMAIN metric_history) \ {handle} |-> metric_history[h]]
    /\ cleared' = [h \in Handles |->
                      IF h \in DOMAIN metric_history /\ (handle \in Falsy \/ h = handle)
                      THEN Len(appended[h]) ELSE cleared[h]]
    /\ clear_op' = [flip |-> ~clear_op.flip, handle |-> handle]
    /\ event' = "none"
    /\ UNCHANGED <<status, connection_service, services, callbacks, pc,
                   self_service, session_live, disconnect_returned>>
    /\ UNCHANGED <<callVars, update_callbacks, clock, ninvoked, appended>>
    /\ UNCHANGED <<appVars, discVars, pending, reader, registry_op>>

\* registration of an observer (DeviceController.register_metric_callback)
RegisterCallback(o) ==
    /\ update_callbacks' = register_callback(update_callbacks, o)
    /\ event' = "none"
    /\ UNCHANGED <<status, connection_service, services, callbacks, pc,
                   self_service, session_live, disconnect_returned>>
    /\ UNCHANGED <<callVars, metric_history, clock, ninvoked, appended>>

\* DeviceController.unregister_metric_callback
UnregisterCallback(o) ==
    /\ update_callbacks' = unregister_callback(update_callbacks, o)
    /\ event' = "none"
    /\ UNCHANGED <<status, connection_service, services, callbacks, pc,
                   self_service, session_live, disconnect_returned>>
    /\ UNCHANGED <<callVars, metric_history, clock, ninvoked, appended>>

\* -------------------------------------------------------- delivery threads
\* deliveries that entered the binding's dispatch and did not yet reach
\* process_metric_update
InFlight == {d \in Deliverers : dpc[d] = "inflight"}

\* threads that are inside process_metric_update
InProcess ==
    {d \in Deliverers : dpc[d] \in {"loop", "add", "insert", "append", "notify", "done"}}

\* the external binding fires the observable metrics_by_handle of an MDIB to
\* which the controller's callback is bound, on one of its own threads
DeliverBegin(d, b, limit) ==
    /\ dpc[d] = "idle"
    /\ ninvoked + Cardinality(InFlight) < limit
    /\ \E s \in 1..Len(services) : services[s].bound
    /\ dpc' = [dpc EXCEPT ![d] = "inflight"]
    /\ metrics_by_handle' = [metrics_by_handle EXCEPT ![d] = b]
    /\ event' = "none"
    /\ UNCHANGED <<status, connection_service, services, callbacks, pc,
                   self_service, session_live, disconnect_returned>>
    /\ UNCHANGED <<storeVars, resolver, idx, updated_metrics, nidx, notes,
                   committed, callno>>

\* a fan-out that does not test whether the batch produced a sample
AfterLoopAlways(updated, list) ==
    IF Len(list) > 0 THEN "notify" ELSE "done"

\* where process_metric_update goes once the for loop is over: the fan-out
\* when samples were produced and observers are registered, else the return
AfterLoop(updated, list) ==
    IF updated # <<>> /\ Len(list) > 0 THEN "notify" ELSE "done"

\* DeviceController._on_metric_update up to the first entry of the batch
OnMetricUpdate(d) ==
    /\ dpc[d] = "inflight"
    /\ event' = "none"
    /\ UNCHANGED <<status, connection_service, services, callbacks, pc,
                   self_service, session_live, disconnect_returned>>
    /\ UNCHANGED <<metric_history, update_callbacks, clock, appended,
                   metrics_by_handle, nidx, committed>>
    /\ IF connection_service = 0
       THEN /\ dpc' = [dpc EXCEPT ![d] = "idle"]
            /\ UNCHANGED <<ninvoked, resolver, idx, updated_metrics, notes, callno>>
       ELSE /\ ninvoked' = ninvoked + 1
            /\ callno' = [callno EXCEPT ![d] = ninvoked + 1]
            /\ resolver' = [resolver EXCEPT ![d] = connection_service]
            /\ idx' = [idx EXCEPT ![d] = 1]
            /\ updated_metrics' = [updated_metrics EXCEPT ![d] = <<>>]
            /\ notes' = [notes EXCEPT ![d] = <<>>]
            /\ dpc' = [dpc EXCEPT ![d] =
                          IF metrics_by_handle[d] = <<>> THEN "done" ELSE "loop"]

\* one iteration of the for loop of process_metric_update
ProcessStep(d) ==
    /\ dpc[d] = "loop"
    /\ LET entry == metrics_by_handle[d][idx[d]]
           made == ProcessEntry(entry, resolver[d], clock)
           upd == updated_metrics[d] \o made
           last == idx[d] = Len(metrics_by_handle[d])
           hist == IF made = <<>> THEN metric_history
                   ELSE add_to_history(metric_history, made[1])
       IN  /\ metric_history' = hist
           /\ appended' = IF made = <<>> THEN appended
                          ELSE [appended EXCEPT ![entry.handle] =
                                   Append(@, [sample |-> made[1], call |-> callno[d]])]
           /\ clock' = IF made = <<>> THEN clock ELSE clock + 1
           /\ updated_metrics' = [updated_metrics EXCEPT ![d] = upd]
           /\ idx' = [idx EXCEPT ![d] = @ + 1]
           /\ dpc' = [dpc EXCEPT ![d] =
                         IF last THEN AfterLoop(upd, update_callbacks) ELSE "loop"]
           /\ nidx' = [nidx EXCEPT ![d] = IF last THEN 1 ELSE @]
           /\ committed' = [committed EXCEPT ![d] = IF last THEN hist ELSE @]
    /\ event' = "none"
    /\ UNCHANGED <<status, connection_service, services, callbacks, pc,
                   self_service, session_live, disconnect_returned>>
    /\ UNCHANGED <<update_callbacks, ninvoked, metrics_by_handle, resolver,
                   notes, callno>>

\* what the steps of the loop body leave alone
LoopFrame ==
    /\ event' = "none"
    /\ UNCHANGED <<status, connection_service, services, callbacks, pc,
                   self_service, session_live, disconnect_returned>>
    /\ UNCHANGED <<update_callbacks, ninvoked, metrics_by_handle, resolver,
                   notes, callno>>
    /\ UNCHANGED <<appVars, discVars, reader, registry_op, cleared, clear_op>>

\* process_metric_update, lines 38-64, as a step of its own: the entry is
\* skipped, or the MetricData is created with the time of this moment
CreateSample(d) ==
    /\ dpc[d] = "loop"
    /\ LET entry == metrics_by_handle[d][idx[d]]
           made == ProcessEntry(entry, resolver[d], clock)
           last == idx[d] = Len(metrics_by_handle[d])
       IN  IF made = <<>>
           THEN /\ idx' = [idx EXCEPT ![d] = @ + 1]
                /\ dpc' = [dpc EXCEPT ![d] =
                              IF last THEN AfterLoop(updated_metrics[d], update_callbacks)
                              ELSE "loop"]
                /\ nidx' = [nidx EXCEPT ![d] = IF last THEN 1 ELSE @]
                /\ committed' = [committed EXCEPT ![d] = IF last THEN metric_history ELSE @]
                /\ UNCHANGED <<pending, clock>>
           ELSE /\ pending' = [pending EXCEPT ![d] = made]
                /\ clock' = clock + 1
                /\ dpc' = [dpc EXCEPT ![d] = "add"]
                /\ UNCHANGED <<idx, nidx, committed>>
    /\ UNCHANGED <<metric_history, appended, updated_metrics>>
    /\ LoopFrame

\* _add_to_history, line 80: is the handle in _metric_history
CheckHistory(d) ==
    /\ dpc[d] = "add"
    /\ dpc' = [dpc EXCEPT ![d] =
                  IF pending[d][1].handle \in DOMAIN metric_history
                  THEN "append" ELSE "insert"]
    /\ UNCHANGED <<metric_history, appended, updated_metrics, pending, clock,
                   idx, nidx, committed>>
    /\ LoopFrame

\* _add_to_history, line 81: an empty deque is stored under the handle
InsertHistory(d) ==
    /\ dpc[d] = "insert"
    /\ LET h == pending[d][1].handle
       IN  metric_history' = [x \in (DOMAIN metric_history) \cup {h} |->
                                 IF x = h THEN <<>> ELSE metric_history[x]]
    /\ dpc' = [dpc EXCEPT ![d] = "append"]
    /\ UNCHANGED <<appended, updated_metrics, pending, clock, idx, nidx, committed>>
    /\ LoopFrame

\* _add_to_history, line 83, and process_metric_update, line 68: the sample
\* is appended to the deque of its handle and to updated_metrics
AppendSample(d) ==
    /\ dpc[d] = "append"
    /\ LET sample == pending[d][1]
           upd == Append(updated_metrics[d], sample)
           last == idx[d] = Len(metrics_by_handle[d])
           hist == add_to_history(metric_history, sample)
       IN  /\ metric_history' = hist
           /\ appended' = [appended EXCEPT ![sample.handle] =
                              Append(@, [sample |-> sample, call |-> callno[d]])]
           /\ updated_metrics' = [updated_metrics EXCEPT ![d] = upd]
           /\ idx' = [idx EXCEPT ![d] = @ + 1]
           /\ dpc' = [dpc EXCEPT ![d] =
                         IF last THEN AfterLoop(upd, update_callbacks) ELSE "loop"]
           /\ nidx' = [nidx EXCEPT ![d] = IF last THEN 1 ELSE @]
           /\ committed' = [committed EXCEPT ![d] = IF last THEN hist ELSE @]
    /\ pending' = [pending EXCEPT ![d] = <<>>]
    /\ UNCHANGED clock
    /\ LoopFrame

\* what the steps of a read leave alone
ReadFrame ==
    /\ event' = "none"
    /\ UNCHANGED <<status, connection_service, services, callbacks, pc,
                   self_service, session_live, disconnect_returned>>
    /\ UNCHANGED <<storeVars, callVars>>
    /\ UNCHANGED <<appVars, discVars, pending, registry_op, cleared, clear_op>>

\* the iterator of get_all_latest_metrics yields handle k and the
\* comprehension stores get_latest_metric(k) under it
Visit(r, k) ==
    [r EXCEPT !.todo = @ \ {k},
              !.result = (k :> get_latest_metric(k)) @@ @]

\* get_all_latest_metrics, lines 119-120: the iterator over the keys
\* remembers the size of the dict and yields its first key
AllLatestBegin ==
    /\ reader.pc = "idle"
    /\ LET keys == DOMAIN metric_history
           r == [pc |-> "iter", size |-> Cardinality(keys), todo |-> keys,
                 result |-> <<>>]
       IN  IF keys = {}
           THEN reader' = [r EXCEPT !.pc = "returned"]
           ELSE \E k \in keys : reader' = Visit(r, k)
    /\ ReadFrame

\* the next step of the iteration: RuntimeError when the dict changed its
\* size since the iterator was made, else the next key, or the end
AllLatestNext ==
    /\ reader.pc = "iter"
    /\ IF Cardinality(DOMAIN metric_history) # reader.size
       THEN reader' = [reader EXCEPT !.pc = "raised"]
       ELSE IF reader.todo = {}
            THEN reader' = [reader EXCEPT !.pc = "returned"]
            ELSE \E k \in reader.todo : reader' = Visit(reader, k)
    /\ ReadFrame

\* a fan-out that an observer's exception ends
AfterCallbackAbort(i, list, raised) ==
    IF raised \/ i + 1 > Len(list) THEN "done" ELSE "notify"

\* where _notify_callbacks goes after the call of the observer at position i;
\* the except clause logs what the observer raised and the loop goes on
AfterCallback(i, list, raised) ==
    IF i + 1 > Len(list) THEN "done" ELSE "notify"

\* one iteration of the for loop of _notify_callbacks: the observer is called
\* with the samples of the batch; what it raises is caught and logged
NotifyStep(d, raised) ==
    /\ dpc[d] = "notify"
    /\ nidx[d] <= Len(update_callbacks)
    /\ notes' = [notes EXCEPT ![d] =
                    Append(@, [observer |-> update_callbacks[nidx[d]],
                               metrics |-> updated_metrics[d],
                               raised |-> raised])]
    /\ nidx' = [nidx EXCEPT ![d] = @ + 1]
    /\ dpc' = [dpc EXCEPT ![d] = AfterCallback(nidx[d], update_callbacks, raised)]
    /\ event' = "onMetricsUpdated"
    /\ UNCHANGED <<status, connection_service, services, callbacks, pc,
                   self_service, session_live, disconnect_returned>>
    /\ UNCHANGED <<storeVars, metrics_by_handle, resolver, idx,
                   updated_metrics, committed, callno>>

\* one iteration of the for loop of _notify_callbacks in which the observer
\* that is called unregisters observer o before it returns: the loop's
\* iterator keeps its position in the list that has changed
NotifyAndUnregister(d, o) ==
    /\ dpc[d] = "notify"
    /\ nidx[d] <= Len(update_callbacks)
    /\ notes' = [notes EXCEPT ![d] =
                    Append(@, [observer |-> update_callbacks[nidx[d]],
                               metrics |-> updated_metrics[d],
                               raised |-> FALSE])]
    /\ update_callbacks' = unregister_callback(update_callbacks, o)
    /\ nidx' = [nidx EXCEPT ![d] = @ + 1]
    /\ dpc' = [dpc EXCEPT ![d] = AfterCallback(nidx[d], update_callbacks', FALSE)]
    /\ event' = "onMetricsUpdated"
    /\ UNCHANGED <<status, connection_service, services, callbacks, pc,
                   self_service, session_live, disconnect_returned>>
    /\ UNCHANGED <<metric_history, clock, ninvoked, appended>>
    /\ UNCHANGED <<metrics_by_handle, resolver, idx, updated_metrics,
                   committed, callno>>

\* process_metric_update and _on_metric_update return to the binding
Return(d) ==
    /\ dpc[d] = "done"
    /\ dpc' = [dpc EXCEPT ![d] = "idle"]
    /\ metrics_by_handle' = [metrics_by_handle EXCEPT ![d] = <<>>]
    /\ resolver' = [resolver EXCEPT ![d] = 0]
    /\ idx' = [idx EXCEPT ![d] = 0]
    /\ updated_metrics' = [updated_metrics EXCEPT ![d] = <<>>]
    /\ nidx' = [nidx EXCEPT ![d] = 0]
    /\ notes' = [notes EXCEPT ![d] = <<>>]
    /\ committed' = [committed EXCEPT ![d] = <<>>]
    /\ callno' = [callno EXCEPT ![d] = 0]
    /\ event' = "none"
    /\ UNCHANGED <<status, connection_service, services, callbacks, pc,
                   self_service, session_live, disconnect_returned>>
    /\ UNCHANGED storeVars

\* ConnectionService.__init__
ConnectionService ==
    [consumer |-> "none", mdib |-> "none", metric_callback |-> FALSE,
     bound |-> FALSE]

\* --------------------------------------------------------- DeviceController
\* what every step of a caller leaves alone
CallerFrame == UNCHANGED <<storeVars, callVars>>

\* connect calls that have not yet created their ConnectionService
Opening == {c \in Callers : pc[c] \in {"c_find", "c_open"}}

\* DeviceController.connect is invoked (nothing in it tests the status)
ConnectCall(c) ==
    /\ pc[c] = "idle"
    /\ Len(services) + Cardinality(Opening) < MaxServices
    /\ pc' = [pc EXCEPT ![c] = "c_find"]
    /\ disconnect_returned' = FALSE
    /\ event' = "none"
    /\ UNCHANGED <<status, connection_service, services, callbacks,
                   self_service, session_live>>
    /\ CallerFrame

\* _find_wsd_service: a fresh search; no service of the device's epr (or a
\* search that raises) ends in the except clause of connect
ConnectFind(c, found) ==
    /\ pc[c] = "c_find"
    /\ pc' = [pc EXCEPT ![c] = IF found THEN "c_open" ELSE "c_except"]
    /\ event' = "none"
    /\ UNCHANGED <<status, connection_service, services, callbacks,
                   self_service, session_live, disconnect_returned>>
    /\ CallerFrame

\* connect, lines 35-36, and ConnectionService.connect up to line 30: a new
\* ConnectionService replaces the controller's, and the status is CONNECTING
ConnectOpen(c) ==
    /\ pc[c] = "c_open"
    /\ services' = Append(services, ConnectionService)
    /\ connection_service' = Len(services) + 1
    /\ self_service' = [self_service EXCEPT ![c] = Len(services) + 1]
    /\ status' = "connecting"
    /\ pc' = [pc EXCEPT ![c] = "c_start"]
    /\ event' = "none"
    /\ UNCHANGED <<callbacks, session_live, disconnect_returned>>
    /\ CallerFrame

\* ConnectionService.connect, lines 33-37: SdcConsumer.from_wsd_service and
\* start_all; a failure sets ERROR and is raised again
ConnectStart(c, outcome) ==
    /\ pc[c] = "c_start"
    /\ LET s == self_service[c]
       IN  services' = [services EXCEPT ![s].consumer =
                           CASE outcome = "ok" -> "started"
                             [] outcome = "start_fails" -> "failed"
                             [] OTHER -> "none"]
    /\ status' = IF outcome = "ok" THEN status ELSE "error"
    /\ pc' = [pc EXCEPT ![c] = IF outcome = "ok" THEN "c_mdib" ELSE "c_except"]
    /\ event' = "none"
    /\ UNCHANGED <<connection_service, callbacks, self_service, session_live,
                   disconnect_returned>>
    /\ CallerFrame

\* ConnectionService.connect, lines 40-56: the MDIB is created and
\* initialised, then the status is CONNECTED; a failure sets ERROR
ConnectMdib(c, ok) ==
    /\ pc[c] = "c_mdib"
    /\ LET s == self_service[c]
       IN  services' = [services EXCEPT ![s].mdib =
                           IF ok THEN "inited" ELSE "created"]
    /\ status' = IF ok THEN "connected" ELSE "error"
    /\ session_live' = (ok \/ session_live)
    /\ pc' = [pc EXCEPT ![c] = IF ok THEN "c_subscribe" ELSE "c_except"]
    /\ event' = "none"
    /\ UNCHANGED <<connection_service, callbacks, self_service,
                   disconnect_returned>>
    /\ CallerFrame

\* connect, lines 39-40, and ConnectionService.subscribe_to_metrics on the
\* controller's current service: RuntimeError without an MDIB, else the
\* callback is stored and bound
ConnectSubscribe(c, ok) ==
    /\ pc[c] = "c_subscribe"
    /\ LET s == connection_service
       IN  IF services[s].mdib = "none"
           THEN /\ pc' = [pc EXCEPT ![c] = "c_except"]
                /\ UNCHANGED services
           ELSE /\ services' = [services EXCEPT ![s].metric_callback = TRUE,
                                                ![s].bound = (ok \/ @)]
                /\ pc' = [pc EXCEPT ![c] = IF ok THEN "c_notify" ELSE "c_except"]
    /\ event' = "none"
    /\ UNCHANGED <<status, connection_service, callbacks, self_service,
                   session_live, disconnect_returned>>
    /\ CallerFrame

\* connect, lines 45-46: the connected callback, when one is set; what it
\* raises is handled by the except clause
ConnectNotify(c, raises) ==
    /\ pc[c] = "c_notify"
    /\ raises => "connected" \in callbacks
    /\ event' = IF "connected" \in callbacks THEN "onConnected" ELSE "none"
    /\ pc' = [pc EXCEPT ![c] = IF raises THEN "c_except" ELSE "idle"]
    /\ UNCHANGED <<status, connection_service, services, callbacks,
                   self_service, session_live, disconnect_returned>>
    /\ CallerFrame

\* an except clause that sets ERROR and raises again without reporting
ConnectExceptSilent(c) ==
    /\ pc[c] = "c_except"
    /\ status' = "error"
    /\ event' = "none"
    /\ pc' = [pc EXCEPT ![c] = "idle"]
    /\ UNCHANGED <<connection_service, services, callbacks, self_service,
                   session_live, disconnect_returned>>
    /\ CallerFrame

\* connect, lines 48-53: the except clause sets ERROR, reports the error and
\* raises it again
ConnectExcept(c) ==
    /\ pc[c] = "c_except"
    /\ status' = "error"
    /\ event' = IF "error" \in callbacks THEN "onError" ELSE "none"
    /\ pc' = [pc EXCEPT ![c] = "idle"]
    /\ UNCHANGED <<connection_service, services, callbacks, self_service,
                   session_live, disconnect_returned>>
    /\ CallerFrame

\* DeviceController.disconnect is invoked: with a connection service its
\* disconnect is called, else the disconnected callback comes next
DisconnectCall(c) ==
    /\ pc[c] = "idle"
    /\ pc' = [pc EXCEPT ![c] = IF connection_service # 0 THEN "d_unbind" ELSE "d_notify"]
    /\ self_service' = [self_service EXCEPT ![c] = connection_service]
    /\ event' = "none"
    /\ UNCHANGED <<status, connection_service, services, callbacks,
                   session_live, disconnect_returned>>
    /\ CallerFrame

\* a disconnect that leaves the callback bound
DisconnectWithoutUnbind(c, ok) ==
    /\ pc[c] = "d_unbind"
    /\ ok
    /\ pc' = [pc EXCEPT ![c] = "d_stop"]
    /\ event' = "none"
    /\ UNCHANGED <<status, connection_service, services, callbacks,
                   self_service, session_live, disconnect_returned>>
    /\ CallerFrame

\* ConnectionService.disconnect, lines 148-153: the callback is unbound when
\* one was stored and an MDIB exists; an exception ends the method (logged)
DisconnectUnbind(c, ok) ==
    /\ pc[c] = "d_unbind"
    /\ LET s == self_service[c]
       IN  IF services[s].metric_callback /\ services[s].mdib # "none"
           THEN /\ services' = [services EXCEPT ![s].bound = IF ok THEN FALSE ELSE @]
                /\ pc' = [pc EXCEPT ![c] = IF ok THEN "d_stop" ELSE "d_notify"]
           ELSE /\ ok
                /\ UNCHANGED services
                /\ pc' = [pc EXCEPT ![c] = "d_stop"]
    /\ event' = "none"
    /\ UNCHANGED <<status, connection_service, callbacks, self_service,
                   session_live, disconnect_returned>>
    /\ CallerFrame

\* ConnectionService.disconnect, lines 155-156: the consumer, when there is
\* one, is stopped; an exception ends the method (logged)
DisconnectStop(c, ok) ==
    /\ pc[c] = "d_stop"
    /\ LET s == self_service[c]
       IN  IF services[s].consumer # "none"
           THEN /\ services' = [services EXCEPT ![s].consumer =
                                   IF ok THEN "stopped" ELSE @]
                /\ pc' = [pc EXCEPT ![c] = IF ok THEN "d_status" ELSE "d_notify"]
           ELSE /\ ok
                /\ UNCHANGED services
                /\ pc' = [pc EXCEPT ![c] = "d_status"]
    /\ event' = "none"
    /\ UNCHANGED <<status, connection_service, callbacks, self_service,
                   session_live, disconnect_returned>>
    /\ CallerFrame

\* ConnectionService.disconnect, line 158
DisconnectStatus(c) ==
    /\ pc[c] = "d_status"
    /\ status' = "disconnected"
    /\ pc' = [pc EXCEPT ![c] = "d_notify"]
    /\ event' = "none"
    /\ UNCHANGED <<connection_service, services, callbacks, self_service,
                   session_live, disconnect_returned>>
    /\ CallerFrame

\* disconnect, lines 70-74: the disconnected callback, when one is set; what
\* it raises is handled by the except clause
DisconnectNotify(c, raises) ==
    /\ pc[c] = "d_notify"
    /\ raises => "disconnected" \in callbacks
    /\ event' = IF "disconnected" \in callbacks THEN "onDisconnected" ELSE "none"
    /\ session_live' = IF "disconnected" \in callbacks THEN FALSE ELSE session_live
    /\ pc' = [pc EXCEPT ![c] = IF raises THEN "d_except" ELSE "idle"]
    /\ disconnect_returned' = ~raises
    /\ UNCHANGED <<status, connection_service, services, callbacks, self_service>>
    /\ CallerFrame

\* disconnect, lines 76-79: the except clause reports the error
DisconnectExcept(c) ==
    /\ pc[c] = "d_except"
    /\ event' = IF "error" \in callbacks THEN "onError" ELSE "none"
    /\ pc' = [pc EXCEPT ![c] = "idle"]
    /\ disconnect_returned' = TRUE
    /\ UNCHANGED <<status, connection_service, services, callbacks,
                   self_service, session_live>>
    /\ CallerFrame

\* --------------------------------------------------------- DiscoveryService
\* the states of a WSDiscovery transport
TransportStates == {"none", "created", "running", "stopped"}

\* what a DiscoveryService call leaves behind: the method, how it ended,
\* whether it called the transport, and whether the transport was running
\* when it was invoked
Call(op, result, transport) ==
    [op |-> op, result |-> result, transport |-> transport,
     was_running |-> (discovery = "running")]

\* DiscoveryService.start: nothing when the flag is set; else a new transport
\* is created and started, and the flag is set only after both succeeded. A
\* transport whose start() raised is not running.
Start(outcome) ==
    IF is_running
    THEN /\ outcome = "ok"
         /\ call' = Call("start", "returned", FALSE)
         /\ UNCHANGED <<discovery, is_running, transports>>
    ELSE /\ transports < MaxTransports
         /\ CASE outcome = "ok" ->
                   /\ discovery' = "running"
                   /\ is_running' = TRUE
                   /\ transports' = transports + 1
                   /\ call' = Call("start", "returned", TRUE)
              [] outcome = "create_fails" ->
                   /\ call' = Call("start", "raised", FALSE)
                   /\ UNCHANGED <<discovery, is_running, transports>>
              [] OTHER ->
                   /\ discovery' = "created"
                   /\ transports' = transports + 1
                   /\ call' = Call("start", "raised", TRUE)
                   /\ UNCHANGED is_running

\* DiscoveryService.stop: the transport is stopped and the flag cleared when
\* there is a transport and the flag is set; a stop() of the transport that
\* raises is logged and the flag stays set, whether it raised before or
\* after it ended the transport
Stop(ok, after) ==
    IF discovery # "none" /\ is_running
    THEN /\ after \in (IF ok THEN {"stopped"} ELSE {discovery, "stopped"})
         /\ discovery' = after
         /\ is_running' = (IF ok THEN FALSE ELSE is_running)
         /\ call' = Call("stop", "returned", TRUE)
         /\ UNCHANGED transports
    ELSE /\ ok /\ after = discovery
         /\ call' = Call("stop", "returned", FALSE)
         /\ UNCHANGED <<discovery, is_running, transports>>

\* the endpoint references of the devices on the network; a record of the
\* transport that has no usable epr
Eprs == {"urn:uuid:1", "urn:uuid:2"}
NoEpr == "absent"

\* the records search_services can return, and its results
WsdServices == {[epr |-> e] : e \in Eprs \cup {NoEpr}}
TransportResults ==
    UNION {[1..n -> WsdServices] : n \in 0..MaxFound}

\* how a search_services call ended: it raised, or it returned records
NoSearch == [raised |-> FALSE, services |-> <<>>]

\* DiscoveryService._create_device_from_service raises for a record whose
\* epr cannot be read; else the Device carries the record's epr and the
\* status DISCOVERED
CreateRaises(service) == service.epr = NoEpr
create_device_from_service(service) ==
    [epr |-> service.epr, status |-> "discovered"]

RECURSIVE create_devices_until_failure(_)
\* a loop that the first failing record ends
create_devices_until_failure(found) ==
    IF found = <<>> \/ CreateRaises(Head(found)) THEN <<>>
    ELSE <<create_device_from_service(Head(found))>>
             \o create_devices_until_failure(Tail(found))

RECURSIVE create_devices(_)
\* search_devices, lines 70-78: the loop over the transport's records; a
\* record whose Device cannot be created is logged and skipped
create_devices(found) ==
    IF found = <<>> THEN <<>>
    ELSE (IF CreateRaises(Head(found)) THEN <<>>
          ELSE <<create_device_from_service(Head(found))>>)
             \o create_devices(Tail(found))

\* DiscoveryService.search_devices: RuntimeError when the flag is not set,
\* else the transport's search_services, whose exception is raised again,
\* and whose records become the devices returned
SearchDevices(ok, found) ==
    /\ IF ~is_running
       THEN /\ ok /\ found = <<>>
            /\ call' = Call("search", "not_started", FALSE)
            /\ UNCHANGED <<wsd_services, devices>>
       ELSE IF ok
            THEN /\ call' = Call("search", "returned", TRUE)
                 /\ wsd_services' = [raised |-> FALSE, services |-> found]
                 /\ devices' = create_devices(found)
            ELSE /\ found = <<>>
                 /\ call' = Call("search", "raised", TRUE)
                 /\ wsd_services' = [raised |-> TRUE, services |-> <<>>]
                 /\ UNCHANGED devices
    /\ UNCHANGED <<discovery, is_running, transports>>

\* ------------------------------------- DiscoveryService (location scopes)
\* A scope string is a sequence of pieces: the separators the code splits
\* on, the marker it looks for, and pieces of other text.
LocationMarker == "sdc.ctxt.loc"

\* the position of the first piece t in s, 0 when there is none
FirstIndex(s, t) ==
    IF \E i \in 1..Len(s) : s[i] = t
    THEN CHOOSE i \in 1..Len(s) : s[i] = t /\ \A j \in 1..(i - 1) : s[j] # t
    ELSE 0

\* `t in s`
Contains(s, t) == FirstIndex(s, t) # 0

\* s.split(t)[0], and what follows the first t
UpToFirst(s, t) ==
    IF Contains(s, t) THEN SubSeq(s, 1, FirstIndex(s, t) - 1) ELSE s
AfterFirst(s, t) ==
    IF Contains(s, t) THEN SubSeq(s, FirstIndex(s, t) + 1, Len(s)) ELSE <<>>

RECURSIVE Split(_, _)
\* s.split(t)
Split(s, t) ==
    IF Contains(s, t) THEN <<UpToFirst(s, t)>> \o Split(AfterFirst(s, t), t)
    ELSE <<s>>

\* str.lower, piece by piece
Lower(s) ==
    [i \in 1..Len(s) |-> CASE s[i] = "FAC" -> "fac" [] s[i] = "Bed" -> "bed"
                           [] OTHER -> s[i]]

\* urllib.parse.unquote, piece by piece: %20 is a space
unquote(s) ==
    [i \in 1..Len(s) |-> IF s[i] = "%20" THEN " " ELSE s[i]]

\* the query of a scope string: scope_str.split('?')[1], then split(',')[0]
QueryOf(scope_str) ==
    UpToFirst(Split(scope_str, "?")[2], ",")

\* the parameters of the query that hold a '=': key.lower() and the decoded
\* value of param.split('=', 1)
ParamsOf(query) ==
    LET with == SelectSeq(Split(query, "&"), LAMBDA param : Contains(param, "="))
    IN  [i \in 1..Len(with) |->
            [key |-> Lower(UpToFirst(with[i], "=")),
             value |-> unquote(AfterFirst(with[i], "="))]]

\* a field of LocationInfo: None, or a string
NoValue == [given |-> FALSE, text |-> <<>>]
Value(text) == [given |-> TRUE, text |-> text]

\* params.get(key) of the dict the loop over the parameters builds: the
\* value stored last under the key
Get(params, key) ==
    LET at == {i \in 1..Len(params) : params[i].key = <<key>>}
    IN  IF at = {} THEN NoValue
        ELSE Value(params[CHOOSE i \in at : \A j \in at : j <= i].value)

\* LocationInfo(), and the LocationInfo filled from a matching scope
EmptyLocation ==
    [facility |-> NoValue, poc |-> NoValue, bed |-> NoValue, room |-> NoValue,
     building |-> NoValue, floor |-> NoValue]
LocationOf(scope_str) ==
    LET params == ParamsOf(QueryOf(scope_str))
    IN  [facility |-> Get(params, "fac"), poc |-> Get(params, "poc"),
         bed |-> Get(params, "bed"), room |-> Get(params, "rm"),
         building |-> Get(params, "bldng"), floor |-> Get(params, "flr")]

\* the test of the loop: the marker and a '?' are in the scope string
Matches(scope_str) ==
    Contains(scope_str, LocationMarker) /\ Contains(scope_str, "?")

RECURSIVE extract_location_without_break(_)
\* a loop that goes on after a matching scope
extract_location_without_break(scope_list) ==
    IF scope_list = <<>> THEN EmptyLocation
    ELSE IF \E i \in 2..Len(scope_list) : Matches(scope_list[i])
         THEN extract_location_without_break(Tail(scope_list))
         ELSE IF Matches(Head(scope_list)) THEN LocationOf(Head(scope_list))
              ELSE EmptyLocation

RECURSIVE extract_location_from_scopes(_)
\* DiscoveryService._extract_location_from_scopes over a list of scopes: the
\* first scope that matches fills the LocationInfo and ends the loop
extract_location_from_scopes(scope_list) ==
    IF scope_list = <<>> THEN EmptyLocation
    ELSE IF Matches(Head(scope_list)) THEN LocationOf(Head(scope_list))
         ELSE extract_location_from_scopes(Tail(scope_list))

\* the scope strings of the records
ScopeStrings ==
    {<<LocationMarker, "?", "fac", "=", "ICU", "&", "bed", "=", "B", "%20", "1">>,
     <<LocationMarker, "?", "FAC", "=", "ER", "&", "rm", "=", "7", ",", "poc", "=", "P">>,
     <<LocationMarker, "/", "detail">>,
     <<"sdc.mds.pkp", "?", "fac", "=", "ICU">>,
     <<LocationMarker, "?", "poc", "=", "P", "&", "bldng", "=", "A", "&", "flr", "=", "2", "&", "x">>,
     <<LocationMarker, "?", "fac", "=", "ICU", "&", "fac", "=", "ER", "?", "bed", "=", "1">>,
     <<LocationMarker, "?">>,
     <<"x", LocationMarker, "?", "bed", "=">>}

ScopeLists == UNION {[1..n -> ScopeStrings] : n \in 0..MaxScopes}

\* the call of _extract_location_from_scopes on the record's scopes
ExtractLocation ==
    /\ location = <<>>
    /\ location' = <<extract_location_from_scopes(scopes)>>
    /\ UNCHANGED <<lifeVars, storeVars, callVars, appVars, probeVars>>
    /\ UNCHANGED <<serviceVars, controllerVars, resultVars, scopes>>

\* ---------------------------------------------------------- initial states
\* DeviceController.__init__ and MetricService.__init__
InitStore ==
    /\ metric_history = <<>>
    /\ update_callbacks = <<>>
    /\ clock = 1
    /\ ninvoked = 0
    /\ appended = [h \in Handles |-> <<>>]

InitCalls ==
    /\ dpc = [d \in Deliverers |-> "idle"]
    /\ metrics_by_handle = [d \in Deliverers |-> <<>>]
    /\ resolver = [d \in Deliverers |-> 0]
    /\ idx = [d \in Deliverers |-> 0]
    /\ updated_metrics = [d \in Deliverers |-> <<>>]
    /\ nidx = [d \in Deliverers |-> 0]
    /\ notes = [d \in Deliverers |-> <<>>]
    /\ committed = [d \in Deliverers |-> <<>>]
    /\ callno = [d \in Deliverers |-> 0]

\* the controller after a connect() that succeeded: one session, started,
\* its MDIB initialised and the controller's callback bound
InitConnected ==
    /\ status = "connected"
    /\ connection_service = 1
    /\ services = <<[consumer |-> "started", mdib |-> "inited",
                     metric_callback |-> TRUE, bound |-> TRUE]>>
    /\ callbacks = {"connected", "disconnected", "error"}
    /\ pc = [c \in Callers |-> "idle"]
    /\ self_service = [c \in Callers |-> 0]
    /\ event = "none"
    /\ session_live = TRUE
    /\ disconnect_returned = FALSE

\* ------------------------------------------- the pipeline, one delivery at
\* a time: a connected session whose binding delivers its batches serially,
\* observers registering between batches
Quiescent == \A d \in Deliverers : dpc[d] = "idle"

\* no read in progress, no registry call made, nothing cleared
NoReader == [pc |-> "idle", size |-> 0, todo |-> {}, result |-> <<>>]

NoRegistryOp == [op |-> "none", observer |-> "", before |-> <<>>]

NoClear == [flip |-> FALSE, handle |-> AllHandles]

InitProbes ==
    /\ pending = [d \in Deliverers |-> <<>>]
    /\ reader = NoReader
    /\ registry_op = NoRegistryOp
    /\ cleared = [h \in Handles |-> 0]
    /\ clear_op = NoClear

\* a connect() that did nothing yet
NoAttempt == [failed |-> "none", errors |-> 0, connected |-> 0]

\* SDCMonitorApp.__init__, and no disconnect requested
InitApp ==
    /\ current_device_controller = 0
    /\ cancel_requested = FALSE
    /\ attempt = [c \in Callers |-> NoAttempt]

\* DiscoveryService.__init__
InitDiscovery ==
    /\ discovery = "none"
    /\ is_running = FALSE
    /\ transports = 0
    /\ call = [op |-> "none", result |-> "none", transport |-> FALSE,
               was_running |-> FALSE]
    /\ is_searching = FALSE
    /\ search_pc = "idle"
    /\ discovery_event = <<>>
    /\ wsd_services = NoSearch
    /\ devices = <<>>
    /\ discovered_devices = <<>>
    /\ scopes = <<>>
    /\ location = <<>>

InitPipeline ==
    InitConnected /\ InitStore /\ InitCalls /\ InitApp /\ InitDiscovery /\ InitProbes

NextPipeline ==
    \/ /\ \E b \in Batches : Quiescent /\ DeliverBegin("d1", b, MaxCalls)
       /\ UNCHANGED <<appVars, discVars, probeVars>>
    \/ OnMetricUpdate("d1") /\ UNCHANGED <<appVars, discVars, probeVars>>
    \/ ProcessStep("d1") /\ UNCHANGED <<appVars, discVars, probeVars>>
    \/ /\ \E raised \in BOOLEAN : NotifyStep("d1", raised)
       /\ UNCHANGED <<appVars, discVars, probeVars>>
    \/ Return("d1") /\ UNCHANGED <<appVars, discVars, probeVars>>
    \/ /\ \E o \in Observers : Quiescent /\ RegisterCallback(o)
       /\ UNCHANGED <<appVars, discVars, probeVars>>
    \/ /\ \E o \in Observers : Quiescent /\ UnregisterCallback(o)
       /\ UNCHANGED <<appVars, discVars, probeVars>>

SpecPipeline == InitPipeline /\ [][NextPipeline]_vars

\* ---------------------------------------------- the store and its reads
\* the batches delivered to the store between clear_history calls
StoreBatches ==
    {<<[handle |-> "metric.hr", metric_state |-> NumberValue(72)]>>,
     <<[handle |-> "metric.spo2", metric_state |-> NumberValue(72)],
       [handle |-> "metric.hr", metric_state |-> NullValue]>>}

\* deliveries one at a time, and clear_history between them
NextStore ==
    \/ /\ \E b \in StoreBatches : Quiescent /\ DeliverBegin("d1", b, MaxCalls)
       /\ UNCHANGED <<appVars, discVars, probeVars>>
    \/ OnMetricUpdate("d1") /\ UNCHANGED <<appVars, discVars, probeVars>>
    \/ ProcessStep("d1") /\ UNCHANGED <<appVars, discVars, probeVars>>
    \/ /\ \E raised \in BOOLEAN : NotifyStep("d1", raised)
       /\ UNCHANGED <<appVars, discVars, probeVars>>
    \/ Return("d1") /\ UNCHANGED <<appVars, discVars, probeVars>>
    \/ Quiescent /\ RegisterCallback("o1") /\ UNCHANGED <<appVars, discVars, probeVars>>
    \/ \E handle \in Handles \cup Falsy : Quiescent /\ ClearHistory(handle)

SpecStore == InitPipeline /\ [][NextStore]_vars

\* --------------------------------------- deliveries and reads interleaved
\* the batches of the interleaved deliveries
RaceBatches ==
    {<<[handle |-> "metric.hr", metric_state |-> NumberValue(72)]>>,
     <<[handle |-> "metric.spo2", metric_state |-> NumberValue(72)]>>}

\* the binding delivers on its threads while the event loop reads; a thread
\* switch can come between any two steps of _add_to_history and between two
\* steps of the iteration of get_all_latest_metrics
NextInterleaved ==
    \/ /\ \E d \in Deliverers, b \in RaceBatches : DeliverBegin(d, b, MaxCalls)
       /\ UNCHANGED <<appVars, discVars, probeVars>>
    \/ /\ \E d \in Deliverers : OnMetricUpdate(d)
       /\ UNCHANGED <<appVars, discVars, probeVars>>
    \/ \E d \in Deliverers : CreateSample(d)
    \/ \E d \in Deliverers : CheckHistory(d)
    \/ \E d \in Deliverers : InsertHistory(d)
    \/ \E d \in Deliverers : AppendSample(d)
    \/ /\ \E d \in Deliverers : Return(d)
       /\ UNCHANGED <<appVars, discVars, probeVars>>
    \/ AllLatestBegin
    \/ AllLatestNext

SpecInterleaved == InitPipeline /\ [][NextInterleaved]_vars

\* ------------------------------------------------- location extraction
\* a record with any of the scope lists, before the extraction
InitLocation ==
    /\ InitConnected /\ InitStore /\ InitCalls /\ InitApp /\ InitProbes
    /\ discovery = "running"
    /\ is_running = TRUE
    /\ transports = 1
    /\ call = Call("start", "returned", TRUE)
    /\ is_searching = FALSE
    /\ search_pc = "idle"
    /\ discovery_event = <<>>
    /\ wsd_services = NoSearch
    /\ devices = <<>>
    /\ discovered_devices = <<>>
    /\ scopes \in ScopeLists
    /\ location = <<>>

NextLocation == ExtractLocation

SpecLocation == InitLocation /\ [][NextLocation]_vars

\* ------------------------------------------------- the observer registry
\* a register_metric_callback call, recorded with the list it found
Register(o) ==
    /\ RegisterCallback(o)
    /\ registry_op' = [op |-> "register", observer |-> o, before |-> update_callbacks]
    /\ UNCHANGED <<appVars, discVars, pending, reader, cleared, clear_op>>

\* an unregister_metric_callback call, recorded with the list it found
Unregister(o) ==
    /\ UnregisterCallback(o)
    /\ registry_op' = [op |-> "unregister", observer |-> o, before |-> update_callbacks]
    /\ UNCHANGED <<appVars, discVars, pending, reader, cleared, clear_op>>

\* the batches delivered between the registry calls: one that produces a
\* sample and one that produces none
RegistryBatches ==
    {<<[handle |-> "metric.hr", metric_state |-> NumberValue(72)]>>,
     <<[handle |-> "metric.hr", metric_state |-> TextValue]>>}

\* observers registering and unregistering in any order between the batches
\* of a connected session
NextRegistry ==
    \/ /\ \E b \in RegistryBatches : Quiescent /\ DeliverBegin("d1", b, MaxCalls)
       /\ UNCHANGED <<appVars, discVars, probeVars>>
    \/ OnMetricUpdate("d1") /\ UNCHANGED <<appVars, discVars, probeVars>>
    \/ ProcessStep("d1") /\ UNCHANGED <<appVars, discVars, probeVars>>
    \/ /\ \E raised \in BOOLEAN : NotifyStep("d1", raised)
       /\ UNCHANGED <<appVars, discVars, probeVars>>
    \/ Return("d1") /\ UNCHANGED <<appVars, discVars, probeVars>>
    \/ \E o \in Observers : Quiescent /\ Register(o)
    \/ \E o \in Observers : Quiescent /\ Unregister(o)

SpecRegistry == InitPipeline /\ [][NextRegistry]_vars

\* ------------------------------------- observers that unregister observers
\* deliveries one at a time to observers that were registered between them
\* and that may call unregister_callback from inside their callback
NextFanOut ==
    \/ /\ \E b \in RegistryBatches : Quiescent /\ DeliverBegin("d1", b, MaxCalls)
       /\ UNCHANGED <<appVars, discVars, probeVars>>
    \/ OnMetricUpdate("d1") /\ UNCHANGED <<appVars, discVars, probeVars>>
    \/ ProcessStep("d1") /\ UNCHANGED <<appVars, discVars, probeVars>>
    \/ /\ \E raised \in BOOLEAN : NotifyStep("d1", raised)
       /\ UNCHANGED <<appVars, discVars, probeVars>>
    \/ /\ \E o \in Observers : NotifyAndUnregister("d1", o)
       /\ UNCHANGED <<appVars, discVars, probeVars>>
    \/ Return("d1") /\ UNCHANGED <<appVars, discVars, probeVars>>
    \/ /\ \E o \in Observers : Quiescent /\ RegisterCallback(o)
       /\ UNCHANGED <<appVars, discVars, probeVars>>

SpecFanOut == InitPipeline /\ [][NextFanOut]_vars

\* ------------------------------------------------------- pipeline claims
\* the samples ever appended to the history of h, oldest first
AppendedSamples(h) ==
    [i \in 1..Len(appended[h]) |-> appended[h][i].sample]

\* C5: with capacity N = max_points, the history of every handle has at most
\* N samples and is the last min(N, M) of the M samples appended to that
\* handle, oldest first; once M > N its length is exactly N.
C5_BoundedHistory ==
    \A h \in Handles :
        LET history == get_metric_history(h, NoLimit)
            all == AppendedSamples(h)
        IN  /\ Len(history) <= MaxPoints
            /\ history = LastN(all, MaxPoints)
            /\ Len(all) > MaxPoints => Len(history) = MaxPoints

\* more samples than the capacity were appended to one handle
C5_Witness ==
    \E h \in Handles :
        /\ Len(appended[h]) > MaxPoints
        /\ Len(get_metric_history(h, NoLimit)) = MaxPoints

\* the invocation of process_metric_update that appended sample x to h
CallOf(h, x) ==
    (CHOOSE a \in {appended[h][i] : i \in 1..Len(appended[h])} : a.sample = x).call

\* C6: the history of a handle lists its samples in the order in which the
\* process_metric_update calls that produced them were invoked.
C6_ArrivalOrder ==
    \A h \in Handles :
        LET history == get_metric_history(h, NoLimit)
        IN  /\ \A i \in 1..Len(history) :
                   \E k \in 1..Len(appended[h]) : appended[h][k].sample = history[i]
            /\ \A i, j \in 1..Len(history) :
                   i < j => CallOf(h, history[i]) < CallOf(h, history[j])

\* a history holds samples of two calls, one of them a batch of two entries
C6_Witness ==
    \E h \in Handles, d \in Deliverers :
        /\ Len(get_metric_history(h, NoLimit)) >= 2
        /\ dpc[d] = "done"
        /\ Len(metrics_by_handle[d]) = 2
        /\ Len(updated_metrics[d]) = 2

\* an entry that has a value, a resolvable descriptor and a numeric value
Producing(entry, s) ==
    /\ entry.metric_state.MetricValue \notin {"absent"}
    /\ services[s].mdib = "inited" /\ entry.handle \in Described
    /\ entry.metric_state.MetricValue \notin {"null", "text"}

\* C7: the samples a batch produces are exactly its entries with a value, a
\* descriptor and a numeric value, in batch order; any other entry is skipped,
\* the loop goes on to the end of the batch, and every sample produced is
\* appended to the history of its handle.
C7_PartialFailureIsolation ==
    \A d \in Deliverers :
        dpc[d] \in {"loop", "notify", "done"} =>
            LET s == resolver[d]
                Keep(e) == Producing(e, s)
                seen == SubSeq(metrics_by_handle[d], 1, idx[d] - 1)
                expected == SelectSeq(seen, Keep)
                updated == updated_metrics[d]
            IN  /\ dpc[d] \in {"notify", "done"} => seen = metrics_by_handle[d]
                /\ Len(updated) = Len(expected)
                /\ \A i \in 1..Len(updated) :
                       /\ updated[i].handle = expected[i].handle
                       /\ updated[i].value = expected[i].metric_state.Value
                       /\ updated[i].handle \in DOMAIN metric_history
                       /\ metric_history[updated[i].handle]
                              [Len(metric_history[updated[i].handle])] = updated[i]

\* a batch of an entry that is skipped followed by a valid one produced
\* exactly one sample
C7_Witness ==
    \E d \in Deliverers :
        /\ dpc[d] = "done"
        /\ Len(metrics_by_handle[d]) = 2
        /\ ~Producing(metrics_by_handle[d][1], resolver[d])
        /\ Producing(metrics_by_handle[d][2], resolver[d])
        /\ Len(updated_metrics[d]) = 1

\* every sample of the batch of d is the newest of its handle's history
AllAppended(d) ==
    \A i \in 1..Len(updated_metrics[d]) :
        LET h == updated_metrics[d][i].handle
        IN  /\ h \in DOMAIN metric_history
            /\ metric_history[h][Len(metric_history[h])] = updated_metrics[d][i]

\* C8: a batch that produced a sample is handed to every registered observer
\* exactly once, in registration order, with the full list of its samples and
\* only after all of them were appended; a batch that produced none is handed
\* to no observer.
C8_FanOut ==
    \A d \in Deliverers :
        /\ notes[d] # <<>> =>
               /\ idx[d] = Len(metrics_by_handle[d]) + 1
               /\ AllAppended(d)
        /\ dpc[d] = "done" =>
               IF updated_metrics[d] # <<>>
               THEN /\ Len(notes[d]) = Len(update_callbacks)
                    /\ \A i \in 1..Len(notes[d]) :
                           /\ notes[d][i].observer = update_callbacks[i]
                           /\ notes[d][i].metrics = updated_metrics[d]
               ELSE notes[d] = <<>>

\* two observers received a batch of two samples
C8_Witness ==
    \E d \in Deliverers :
        /\ dpc[d] = "done"
        /\ Len(updated_metrics[d]) = 2
        /\ Len(notes[d]) = 2
        /\ notes[d][1].observer # notes[d][2].observer

\* C9: an observer that raises does not keep any observer registered after it
\* from being called with the same batch, process_metric_update still returns
\* normally, and the histories are those committed before the fan-out.
C9_ObserverIsolation ==
    \A d \in Deliverers :
        /\ notes[d] # <<>> => metric_history = committed[d]
        /\ dpc[d] = "done" =>
               \A i \in 1..Len(notes[d]) :
                   notes[d][i].raised =>
                       \A j \in (i + 1)..Len(update_callbacks) :
                           /\ j <= Len(notes[d])
                           /\ notes[d][j].observer = update_callbacks[j]
                           /\ notes[d][j].metrics = notes[d][i].metrics

\* the first of two observers raised and the second was still called
C9_Witness ==
    \E d \in Deliverers :
        /\ dpc[d] = "done"
        /\ Len(notes[d]) = 2
        /\ notes[d][1].raised
        /\ ~notes[d][2].raised

\* ------------------------------------------------ the controller's lifecycle
\* the callbacks set on a new controller before its first connect: those
\* SDCMonitorApp._on_device_selected sets, or all three of the setters
Wirings == {{"connected", "error"}, {"connected", "disconnected", "error"}}

\* DeviceController.__init__ on a discovered device, and its wiring
InitController ==
    /\ status = "discovered"
    /\ connection_service = 0
    /\ services = <<>>
    /\ callbacks \in Wirings
    /\ pc = [c \in Callers |-> "idle"]
    /\ self_service = [c \in Callers |-> 0]
    /\ event = "none"
    /\ session_live = FALSE
    /\ disconnect_returned = FALSE

Init ==
    InitController /\ InitStore /\ InitCalls /\ InitApp /\ InitDiscovery /\ InitProbes

StartOutcomes == {"ok", "create_fails", "start_fails"}

\* the batches the binding delivers in the lifecycle specifications
LifecycleBatches == {<<[handle |-> "metric.hr", metric_state |-> NumberValue(72)]>>}

\* the steps of caller c
CallerStep(c) ==
    \/ ConnectCall(c)
    \/ \E found \in BOOLEAN : ConnectFind(c, found)
    \/ ConnectOpen(c)
    \/ \E outcome \in StartOutcomes : ConnectStart(c, outcome)
    \/ \E ok \in BOOLEAN : ConnectMdib(c, ok)
    \/ \E ok \in BOOLEAN : ConnectSubscribe(c, ok)
    \/ \E raises \in BOOLEAN : ConnectNotify(c, raises)
    \/ ConnectExcept(c)
    \/ DisconnectCall(c)
    \/ \E ok \in BOOLEAN : DisconnectUnbind(c, ok)
    \/ \E ok \in BOOLEAN : DisconnectStop(c, ok)
    \/ DisconnectStatus(c)
    \/ \E raises \in BOOLEAN : DisconnectNotify(c, raises)
    \/ DisconnectExcept(c)

\* the steps of delivery thread d
DeliveryStep(d) ==
    \/ \E b \in LifecycleBatches : DeliverBegin(d, b, MaxDeliveries)
    \/ OnMetricUpdate(d)
    \/ ProcessStep(d)
    \/ \E raised \in BOOLEAN : NotifyStep(d, raised)
    \/ Return(d)

\* the steps of connect() that the except clause of connect() can follow
FailingSteps == {"c_find", "c_start", "c_mdib", "c_subscribe"}

\* what the step that caller c just took adds to the record of its connect()
\* attempt: the step that failed, the error callbacks and the connected
\* callbacks it invoked; the record starts anew with each call of c
Attempted(c) ==
    IF pc[c] = "idle"
    THEN NoAttempt
    ELSE [failed |-> IF pc[c] \in FailingSteps /\ pc'[c] = "c_except"
                     THEN pc[c] ELSE attempt[c].failed,
          errors |-> attempt[c].errors + (IF event' = "onError" THEN 1 ELSE 0),
          connected |-> attempt[c].connected
                            + (IF event' = "onConnected" THEN 1 ELSE 0)]

\* whether a disconnect() was invoked while the status was Connecting and no
\* connect() was invoked since
CancelRequested(c) ==
    IF pc[c] = "idle" /\ pc'[c] = "c_find" THEN FALSE
    ELSE IF pc[c] = "idle" /\ pc'[c] \in {"d_unbind", "d_notify"}
            /\ status = "connecting"
         THEN TRUE
         ELSE cancel_requested

\* a step of caller c on one controller
Caller(c) ==
    /\ CallerStep(c)
    /\ attempt' = [attempt EXCEPT ![c] = Attempted(c)]
    /\ cancel_requested' = CancelRequested(c)
    /\ UNCHANGED current_device_controller

\* one caller at a time (the calls of the event loop), the binding delivering
\* on its own thread
Next ==
    \/ Caller("u1") /\ UNCHANGED <<discVars, probeVars>>
    \/ DeliveryStep("d1") /\ UNCHANGED <<appVars, discVars, probeVars>>
    \/ Quiescent /\ RegisterCallback("o1") /\ UNCHANGED <<appVars, discVars, probeVars>>

Spec == Init /\ [][Next]_vars

\* ------------------------------------------------------------ SDCMonitorApp
\* the steps of a connect() that was invoked
ConnectStep(c) ==
    \/ \E found \in BOOLEAN : ConnectFind(c, found)
    \/ ConnectOpen(c)
    \/ \E outcome \in StartOutcomes : ConnectStart(c, outcome)
    \/ \E ok \in BOOLEAN : ConnectMdib(c, ok)
    \/ \E ok \in BOOLEAN : ConnectSubscribe(c, ok)
    \/ \E raises \in BOOLEAN : ConnectNotify(c, raises)
    \/ ConnectExcept(c)

\* the steps of a disconnect() that was invoked
DisconnectStep(c) ==
    \/ \E ok \in BOOLEAN : DisconnectUnbind(c, ok)
    \/ \E ok \in BOOLEAN : DisconnectStop(c, ok)
    \/ DisconnectStatus(c)
    \/ \E raises \in BOOLEAN : DisconnectNotify(c, raises)
    \/ DisconnectExcept(c)

\* SDCMonitorApp._on_device_selected up to the first step of connect(): a new
\* DeviceController (no connection service, a new MetricService) replaces
\* current_device_controller, its connected and error callbacks are set and
\* its connect() is invoked; the device is one not used before (fresh) or
\* the device of the previous controller
SelectDevice(c, fresh) ==
    /\ pc[c] = "idle"
    /\ Len(services) + Cardinality(Opening) < MaxServices
    /\ current_device_controller' = 1
    /\ connection_service' = 0
    /\ callbacks' = {"connected", "error"}
    /\ status' = IF fresh THEN "discovered" ELSE status
    /\ metric_history' = <<>>
    /\ update_callbacks' = <<>>
    /\ session_live' = FALSE
    /\ disconnect_returned' = FALSE
    /\ cancel_requested' = FALSE
    /\ attempt' = [attempt EXCEPT ![c] = NoAttempt]
    /\ pc' = [pc EXCEPT ![c] = "c_find"]
    /\ event' = "none"
    /\ UNCHANGED <<services, self_service, clock, ninvoked, appended>>
    /\ UNCHANGED <<callVars, discVars, probeVars>>

\* SDCMonitorApp._on_back_to_main: with a current controller, its
\* disconnect() is invoked
BackToMain(c) ==
    /\ current_device_controller # 0
    /\ DisconnectCall(c)
    /\ attempt' = [attempt EXCEPT ![c] = Attempted(c)]
    /\ cancel_requested' = CancelRequested(c)
    /\ UNCHANGED <<current_device_controller, discVars, probeVars>>

\* a step of the connect() that _on_device_selected awaits
SelectedConnect(c) ==
    /\ ConnectStep(c)
    /\ attempt' = [attempt EXCEPT ![c] = Attempted(c)]
    /\ UNCHANGED <<current_device_controller, cancel_requested, discVars, probeVars>>

\* a step of the disconnect() of _on_back_to_main; when it has returned the
\* field current_device_controller is set to None
BackDisconnect(c) ==
    /\ DisconnectStep(c)
    /\ current_device_controller' =
           IF pc'[c] = "idle" THEN 0 ELSE current_device_controller
    /\ attempt' = [attempt EXCEPT ![c] = Attempted(c)]
    /\ UNCHANGED <<cancel_requested, discVars, probeVars>>

\* the handlers of the application, one at a time (they run on the event
\* loop)
NextApp ==
    \/ \E fresh \in BOOLEAN : SelectDevice("u1", fresh)
    \/ SelectedConnect("u1")
    \/ BackToMain("u1")
    \/ BackDisconnect("u1")

SpecApp == Init /\ [][NextApp]_vars

\* ------------------------------------------------------ DiscoveryController
\* the invocations of the controller's callbacks
OnError == [callback |-> "onError", devices |-> <<>>]
OnDevicesFound(found) == [callback |-> "onDevicesFound", devices |-> found]

\* what the discovery steps leave alone
DiscoveryFrame == UNCHANGED <<lifeVars, storeVars, callVars, appVars, probeVars>>

\* DiscoveryController.initialize: the service is started; what start raises
\* is reported to the error callback and raised again
Initialize(outcome) ==
    /\ Start(outcome)
    /\ discovery_event' = IF call'.result = "raised" THEN <<OnError>> ELSE <<>>
    /\ UNCHANGED <<is_searching, search_pc, resultVars, scopeVars>>
    /\ DiscoveryFrame

\* DiscoveryController.shutdown: the service is stopped
Shutdown(ok, after) ==
    /\ Stop(ok, after)
    /\ discovery_event' = <<>>
    /\ UNCHANGED <<is_searching, search_pc, resultVars, scopeVars>>
    /\ DiscoveryFrame

\* a call that, rejected, clears the flag on its way out
SearchForDevicesResetting ==
    /\ IF is_searching
       THEN /\ is_searching' = FALSE
            /\ UNCHANGED search_pc
       ELSE /\ is_searching' = TRUE
            /\ search_pc' = "submitted"
    /\ discovery_event' = <<>>
    /\ UNCHANGED <<serviceVars, resultVars, scopeVars>>
    /\ DiscoveryFrame

\* DiscoveryController.search_for_devices up to the executor: nothing when a
\* search is in progress, else the flag is set and search_devices is handed
\* to the executor
SearchForDevices ==
    /\ IF is_searching
       THEN UNCHANGED <<is_searching, search_pc>>
       ELSE /\ is_searching' = TRUE
            /\ search_pc' = "submitted"
    /\ discovery_event' = <<>>
    /\ UNCHANGED <<serviceVars, resultVars, scopeVars>>
    /\ DiscoveryFrame

\* the executor runs DiscoveryService.search_devices
ExecutorSearch(ok, found) ==
    /\ search_pc = "submitted"
    /\ SearchDevices(ok, found)
    /\ search_pc' = IF call'.result = "returned" THEN "returned" ELSE "raised"
    /\ discovery_event' = <<>>
    /\ UNCHANGED <<is_searching, discovered_devices, scopeVars>>
    /\ DiscoveryFrame

\* a continuation that empties discovered_devices when the search raised
SearchCompletedDropping(raises) ==
    /\ search_pc \in {"returned", "raised"}
    /\ raises => search_pc = "returned"
    /\ discovered_devices' = IF search_pc = "returned" THEN devices ELSE <<>>
    /\ discovery_event' =
           IF search_pc = "returned"
           THEN <<OnDevicesFound(devices)>> \o (IF raises THEN <<OnError>> ELSE <<>>)
           ELSE <<OnError>>
    /\ is_searching' = FALSE
    /\ search_pc' = "idle"
    /\ UNCHANGED <<serviceVars, wsd_services, devices, scopeVars>>
    /\ DiscoveryFrame

\* search_for_devices after the executor: the devices replace
\* discovered_devices and go to the devices-found callback; what the
\* executor or the callback raised goes to the error callback; the finally
\* clause clears the flag
SearchCompleted(raises) ==
    /\ search_pc \in {"returned", "raised"}
    /\ raises => search_pc = "returned"
    /\ discovered_devices' =
           IF search_pc = "returned" THEN devices ELSE discovered_devices
    /\ discovery_event' =
           IF search_pc = "returned"
           THEN <<OnDevicesFound(devices)>> \o (IF raises THEN <<OnError>> ELSE <<>>)
           ELSE <<OnError>>
    /\ is_searching' = FALSE
    /\ search_pc' = "idle"
    /\ UNCHANGED <<serviceVars, wsd_services, devices, scopeVars>>
    /\ DiscoveryFrame

\* --------------------------------------------------- the discovery session
\* the calls of the discovery controller on the event loop, in any order,
\* and its search on the executor; the calls of the transport succeed or
\* raise
NextDiscovery ==
    \/ \E outcome \in StartOutcomes : Initialize(outcome)
    \/ \E ok \in BOOLEAN, after \in TransportStates : Shutdown(ok, after)
    \/ SearchForDevices
    \/ \E ok \in BOOLEAN, found \in TransportResults : ExecutorSearch(ok, found)
    \/ \E raises \in BOOLEAN : SearchCompleted(raises)

SpecDiscovery == Init /\ [][NextDiscovery]_vars

\* ------------------------------------------- searching and connecting
\* the results of the transport while the user searches and selects
FoundOnNetwork == {<<>>, <<[epr |-> "urn:uuid:1"]>>}

\* connect() has no await that suspends it: while it runs, the event loop
\* runs no other handler and no continuation
EventLoopFree == \A c \in Callers : pc[c] = "idle"

\* MainView shows the devices of discovered_devices; the user selects one
SelectDiscovered(c, fresh) ==
    /\ discovered_devices # <<>>
    /\ SelectDevice(c, fresh)

\* the handlers of the main page on the event loop, the search job on the
\* executor's thread, and the connect() that _on_device_selected awaits
NextSearches ==
    \/ \E outcome \in StartOutcomes : EventLoopFree /\ Initialize(outcome)
    \/ EventLoopFree /\ SearchForDevices
    \/ \E ok \in BOOLEAN, found \in FoundOnNetwork : ExecutorSearch(ok, found)
    \/ \E raises \in BOOLEAN : EventLoopFree /\ SearchCompleted(raises)
    \/ \E fresh \in BOOLEAN : SelectDiscovered("u1", fresh)
    \/ SelectedConnect("u1")

SpecSearches == Init /\ [][NextSearches]_vars

\* callers concurrently inside connect and disconnect (the controller holds
\* no lock and tests no status)
NextConcurrentCalls ==
    \E c \in Callers : Caller(c) /\ UNCHANGED <<discVars, probeVars>>

SpecConcurrentCalls == Init /\ [][NextConcurrentCalls]_vars

\* the batches of the concurrent deliveries
ConcurrentBatches ==
    {<<[handle |-> "metric.hr", metric_state |-> NumberValue(72)]>>,
     <<[handle |-> "metric.spo2", metric_state |-> NoMetricValue],
       [handle |-> "metric.hr", metric_state |-> NumberValue(72)]>>}

\* the binding delivers on several threads at once (nothing in
\* _on_metric_update or process_metric_update serialises them)
NextConcurrentDeliveries ==
    \/ \E d \in Deliverers :
           /\ \/ \E b \in ConcurrentBatches : DeliverBegin(d, b, MaxCalls)
              \/ OnMetricUpdate(d)
              \/ ProcessStep(d)
              \/ \E raised \in BOOLEAN : NotifyStep(d, raised)
              \/ Return(d)
           /\ UNCHANGED <<appVars, discVars, probeVars>>
    \/ Quiescent /\ RegisterCallback("o1") /\ UNCHANGED <<appVars, discVars, probeVars>>

SpecConcurrentDeliveries == InitPipeline /\ [][NextConcurrentDeliveries]_vars

\* ------------------------------------------------------ lifecycle claims
\* connect calls whose session-open call (from_wsd_service / start_all /
\* init_mdib of ConnectionService.connect) is outstanding
OpeningSession == {c \in Callers : pc[c] \in {"c_start", "c_mdib"}}

\* C1: a connect() invoked while another connect is in progress (status
\* Connecting) opens no second session: at most one session-open call is
\* outstanding for the device at any moment.
C1_SingleInFlightConnect ==
    Cardinality(OpeningSession) <= 1

\* C2: once disconnect() has returned, no observer receives a metric batch
\* (until a connect is invoked again), also when a delivery was in flight
\* when disconnect() was called.
C2_NoPostMortemDelivery ==
    ~(event = "onMetricsUpdated" /\ disconnect_returned)

\* C3: in a disconnect from Connected the callback is unbound before the
\* session is stopped, and both happen before the status is Disconnected.
C3_TeardownOrder ==
    [][/\ \A s \in 1..Len(services) :
              (services[s].consumer = "started" /\ services'[s].consumer = "stopped")
                  => ~services[s].bound
       /\ (status = "connected" /\ status' = "disconnected")
              => /\ services[connection_service].consumer = "stopped"
                 /\ ~services[connection_service].bound]_vars

\* a disconnect from Connected has unbound the callback and stopped the
\* session, and is about to set the status
C3_Witness ==
    \E c \in Callers :
        /\ pc[c] = "d_status"
        /\ status = "connected"
        /\ services[self_service[c]].metric_callback
        /\ ~services[self_service[c]].bound
        /\ services[self_service[c]].consumer = "stopped"

\* C4: onDisconnected is emitted at most once per session that was actually
\* connected, and not at all by a disconnect() of a controller that never
\* connected or that already emitted it.
C4_IdempotentDisconnect ==
    [][(/\ event' = "onDisconnected"
        /\ \E c \in Callers : pc[c] = "d_notify" /\ pc'[c] # "d_notify")
           => session_live]_vars

\* C10: two deliveries are never inside process_metric_update at the same
\* time.
C10_SerialDeliveries ==
    Cardinality(InProcess) <= 1

\* C11: a connect() invoked while the status is Connected is rejected: no
\* ConnectionService is created, no session is opened, the services and
\* their subscriptions stay as they are and the status stays Connected.
C11_ConnectWhileConnectedRejected ==
    [][(status = "connected" /\ \E c \in Callers : pc[c] \in {"c_find", "c_open"})
           => /\ status' = "connected"
              /\ services' = services
              /\ connection_service' = connection_service]_vars

\* device sessions: transport sessions started and not yet stopped
Sessions == {s \in 1..Len(services) : services[s].consumer = "started"}

\* C12: at most one device session exists at any time; a device selected
\* while a session is active is connected only after that session was
\* disconnected.
C12_SingleSession ==
    Cardinality(Sessions) <= 1

Edges ==
    {<<"discovered", "connecting">>, <<"connecting", "connected">>,
     <<"connected", "disconnected">>, <<"connecting", "error">>,
     <<"connected", "error">>, <<"connecting", "disconnected">>,
     <<"disconnected", "connecting">>, <<"error", "connecting">>}

\* C14: every change of the status is an edge of the state machine; Error
\* is entered only from Connecting or Connected.
C14_StatusStateMachine ==
    [][status' # status => <<status, status'>> \in Edges]_vars

\* C15: a disconnect() invoked when the status is Discovered, Disconnected
\* or Error changes neither the status nor any session or subscription.
C15_DisconnectWhenNotConnectedIsNoOp ==
    [][(/\ status \in {"discovered", "disconnected", "error"}
        /\ \E c \in Callers : pc[c] \in {"d_unbind", "d_stop", "d_status", "d_notify"})
           => /\ status' = status
              /\ services' = services]_vars

\* C16: once DeviceController.disconnect has returned, the history of every
\* handle is empty and get_all_latest_metrics is empty.
C16_NoHistoryAfterDisconnect ==
    disconnect_returned =>
        /\ \A h \in Handles : get_metric_history(h, NoLimit) = <<>>
        /\ DOMAIN get_all_latest_metrics = {}

\* C18: when an observer is invoked with a metric batch, the status of the
\* device is neither Disconnected nor Error.
C18_NoBatchForGoneDevice ==
    event = "onMetricsUpdated" => status \notin {"disconnected", "error"}

\* C17: when a disconnect() was invoked while a connect() was in progress
\* (status Connecting) and both calls have returned, the status is
\* Disconnected or Error, no callback is bound and no session is started.
C17_CancelledConnect ==
    (cancel_requested /\ \A c \in Callers : pc[c] = "idle") =>
        /\ status \in {"disconnected", "error"}
        /\ \A s \in 1..Len(services) :
               ~services[s].bound /\ services[s].consumer # "started"

\* ------------------------------------------------------ discovery claims
\* C19: a search invoked while the discovery session is not running (before
\* the first start, after a stop, after a start that failed) fails with the
\* not-started error and does not call the transport.
C19_SearchNotStarted ==
    (call.op = "search" /\ ~call.was_running) =>
        /\ call.result = "not_started"
        /\ ~call.transport

\* C20: a start() on a running session neither creates nor starts a
\* transport and leaves it running; a stop() on a session that is not
\* running calls nothing and raises nothing; and the running flag is set
\* exactly when the transport runs.
C20_IdempotentStartStop ==
    /\ (call.op = "start" /\ call.was_running) =>
           /\ ~call.transport
           /\ call.result = "returned"
           /\ discovery = "running"
    /\ (call.op = "stop" /\ ~call.was_running) =>
           /\ ~call.transport
           /\ call.result = "returned"
           /\ discovery # "running"
    /\ is_running <=> (discovery = "running")

\* the records of a transport result from which a Device can be created
WellFormed(found) == SelectSeq(found, LAMBDA service : ~CreateRaises(service))

\* C21: a search whose transport call returned returns one device for every
\* record that can be normalised, in the order of the transport's result,
\* also when other records of that result cannot be normalised; the search
\* raises exactly when the transport call raised.
C21_MalformedRecordSkipped ==
    (call.op = "search" /\ call.transport) =>
        /\ (call.result = "raised") <=> wsd_services.raised
        /\ call.result = "returned" =>
               LET good == WellFormed(wsd_services.services)
               IN  /\ Len(devices) = Len(good)
                   /\ \A i \in 1..Len(good) : devices[i].epr = good[i].epr

\* a search returned whose transport result has a record that cannot be
\* normalised in front of one that can
C21_Witness ==
    /\ call.op = "search" /\ call.result = "returned"
    /\ Len(wsd_services.services) = 2
    /\ CreateRaises(wsd_services.services[1])
    /\ ~CreateRaises(wsd_services.services[2])
    /\ Len(devices) = 1

\* C22: discovered_devices never holds two devices with one epr, also when
\* the transport reports an epr twice in one result or in two results.
C22_OneDevicePerId ==
    \A i, j \in 1..Len(discovered_devices) :
        i # j => discovered_devices[i].epr # discovered_devices[j].epr

\* the transport searches that are outstanding: the search_devices job of
\* search_for_devices, from its submission to the executor until it ended,
\* when the service is running; and the search_services of a connect(),
\* from the invocation of connect() until it returned
TransportSearches ==
    (IF search_pc = "submitted" /\ is_running THEN 1 ELSE 0)
        + Cardinality({c \in Callers : pc[c] = "c_find"})

\* C23: at most one search of the transport is in progress at any moment,
\* whether search_for_devices or the fresh lookup of connect() started it.
C23_SingleTransportSearch ==
    TransportSearches <= 1

\* C37: the searching flag is set exactly while a search_for_devices call
\* that was accepted has not ended: it is clear again when the search ended
\* by success, by an error of the transport or by a devices-found callback
\* that raised, and a call rejected because a search is in progress leaves
\* the flag of that search set.
C37_SearchingFlag ==
    is_searching <=> (search_pc # "idle")

\* a search has ended by a devices-found callback that raised, and the flag
\* is clear
C37_Witness ==
    /\ search_pc = "idle" /\ ~is_searching
    /\ Len(discovery_event) = 2
    /\ discovery_event[1].callback = "onDevicesFound"
    /\ discovery_event[2] = OnError

\* the callbacks of a given name among those the last step invoked
Invoked(name) ==
    {i \in 1..Len(discovery_event) : discovery_event[i].callback = name}

\* C38: the step that ends a search whose search_devices raised (service
\* not started, or the transport call failed) leaves discovered_devices as
\* it was, invokes the error callback once and the devices-found callback
\* not at all; the step that ends a search that returned makes the returned
\* list discovered_devices and invokes the devices-found callback once,
\* with that list; the executor's step changes discovered_devices not.
C38_SearchOutcomeReported ==
    [][/\ search_pc = "submitted" => discovered_devices' = discovered_devices
       /\ (search_pc = "raised" /\ search_pc' = "idle") =>
              /\ discovered_devices' = discovered_devices
              /\ discovery_event' = <<OnError>>
       /\ (search_pc = "returned" /\ search_pc' = "idle") =>
              /\ discovered_devices' = devices
              /\ devices = create_devices(wsd_services.services)
              /\ discovery_event'[1] = OnDevicesFound(devices)
              /\ \A i \in 2..Len(discovery_event') :
                     discovery_event'[i].callback # "onDevicesFound"]_vars

\* a search of a service that is not started has ended with one error
\* callback and the devices of an earlier search still in discovered_devices
C38_Witness ==
    /\ search_pc = "idle"
    /\ call.op = "search" /\ call.result = "not_started"
    /\ discovery_event = <<OnError>>
    /\ discovered_devices # <<>>

\* C28: a connect() that failed after its session was started (in the MDIB
\* initialisation or in the subscription) has, once it returned, left the
\* session it started not open and no callback bound; a controller at rest
\* with the status Connected then has exactly one open session.
C28_FailedConnectReleasesSession ==
    /\ \A c \in Callers :
           pc[c] = "idle" /\ attempt[c].failed \in {"c_mdib", "c_subscribe"} =>
               /\ services[self_service[c]].consumer # "started"
               /\ ~services[self_service[c]].bound
    /\ (\A c \in Callers : pc[c] = "idle") /\ status = "connected" =>
           Cardinality(Sessions) = 1

\* C30: the step of connect() that re-resolves the transport handle and the
\* step that opens the session are taken with the status Connecting, and
\* the status becomes Connected only in the step that completes the MDIB
\* initialisation of a started session.
C30_ConnectingBeforeResolve ==
    [][/\ \A c \in Callers :
             pc[c] \in {"c_find", "c_open"} /\ pc'[c] # pc[c] => status = "connecting"
       /\ status' = "connected" /\ status # "connected" =>
             \E c \in Callers : /\ pc[c] = "c_mdib"
                                 /\ services[self_service[c]].consumer = "started"]_vars

\* C33: whenever no connect() and no disconnect() is executing and the
\* status is Disconnected or Error, no callback is bound to the MDIB of the
\* controller's session.
C33_NoDanglingSubscription ==
    ((\A c \in Callers : pc[c] = "idle")
        /\ status \in {"disconnected", "error"} /\ connection_service # 0)
        => ~services[connection_service].bound

\* C34: the disconnected callback is invoked only while the status is
\* Disconnected.
C34_DisconnectedOnlyWhenDisconnected ==
    event = "onDisconnected" => status = "disconnected"

\* C36: the connected callback is invoked with the status Connected and the
\* callback bound, at most once per connect(), and by no connect() that
\* fails (that reaches its except clause).
C36_ConnectedOncePerSuccess ==
    /\ event = "onConnected" =>
           /\ status = "connected"
           /\ connection_service # 0 /\ services[connection_service].bound
    /\ \A c \in Callers :
           /\ attempt[c].connected <= 1
           /\ (pc[c] = "c_except" \/ attempt[c].failed # "none" \/ attempt[c].errors > 0)
                  => attempt[c].connected = 0

\* ----------------------------------------------------------- read claims
\* the samples that _metric_history holds for h
Held(h) == IF h \in DOMAIN metric_history THEN metric_history[h] ELSE <<>>

\* C24: get_metric_history(h, limit) with a limit 0, 1, 2, ... returns the
\* most recent min(limit, length) samples of h, oldest first, and the empty
\* sequence for a handle without history.
C24_LimitedHistory ==
    \A h \in Handles, n \in 0..MaxLimit :
        LET history == get_metric_history(h, Limit(n))
        IN  /\ Len(history) = (IF n < Len(Held(h)) THEN n ELSE Len(Held(h)))
            /\ history = LastN(Held(h), n)

\* C25: in every state the domain of get_all_latest_metrics is the set of
\* handles that ever received a sample, and each of them maps to the sample
\* appended last.
C25_AllLatestEverReceived ==
    /\ DOMAIN get_all_latest_metrics = {h \in Handles : appended[h] # <<>>}
    /\ \A h \in DOMAIN get_all_latest_metrics :
           get_all_latest_metrics[h] = <<appended[h][Len(appended[h])].sample>>

\* C25 (as the code has it): the domain of get_all_latest_metrics is the set
\* of handles that received a sample since clear_history last dropped them
\* (or ever, when it never did), and each of them maps to the sample
\* appended last.
C25_AllLatestSinceCleared ==
    /\ DOMAIN get_all_latest_metrics = {h \in Handles : Len(appended[h]) > cleared[h]}
    /\ \A h \in DOMAIN get_all_latest_metrics :
           get_all_latest_metrics[h] = <<appended[h][Len(appended[h])].sample>>

\* one handle received a sample after its history was cleared, another was
\* cleared and received none since
C25_Witness ==
    \E h, g \in Handles :
        /\ cleared[h] > 0 /\ Len(appended[h]) > cleared[h]
        /\ h \in DOMAIN get_all_latest_metrics
        /\ cleared[g] > 0 /\ Len(appended[g]) = cleared[g]
        /\ g \notin DOMAIN get_all_latest_metrics

\* C26: a get_all_latest_metrics that runs while process_metric_update is
\* adding samples, also the first sample of a handle, never raises, and
\* what it returns maps every handle to a sample of that handle's history
\* (no handle maps to None), as in a state between two whole appends.
C26_ConsistentReads ==
    /\ reader.pc # "raised"
    /\ \A h \in DOMAIN reader.result :
           /\ reader.result[h] # <<>>
           /\ \E i \in 1..Len(appended[h]) : reader.result[h] = <<appended[h][i].sample>>

\* C27: in every handle's history the timestamps are non-decreasing from
\* the oldest sample to the newest, also when deliveries arrive on two
\* threads at once.
C27_MonotoneTimestamps ==
    \A h \in DOMAIN metric_history :
        \A i, j \in 1..Len(metric_history[h]) :
            i < j => metric_history[h][i].timestamp <= metric_history[h][j].timestamp

\* C31: clear_history(h) with a handle h removes the history of h and
\* nothing else (nothing at all when h has no history); clear_history()
\* without a handle removes every history; the observer registry is the
\* same after either.
C31_ClearFrame ==
    [][clear_op'.flip # clear_op.flip =>
          /\ update_callbacks' = update_callbacks
          /\ IF clear_op'.handle = AllHandles
             THEN metric_history' = <<>>
             ELSE /\ DOMAIN metric_history' = (DOMAIN metric_history) \ {clear_op'.handle}
                  /\ \A h \in DOMAIN metric_history' :
                         metric_history'[h] = metric_history[h]]_vars

\* the positions of the scopes that hold the marker and a '?'
Matching == {i \in 1..Len(scopes) : Matches(scopes[i])}

\* C32: the LocationInfo returned is empty when no scope holds the marker
\* and a '?'; else it comes from the first such scope alone: of the text
\* between its first '?' and the next '?' or ',', split on '&', every
\* key=value parameter whose key is (in lower case) fac, poc, bed, rm, bldng
\* or flr gives facility, poc, bed, room, building or floor its
\* percent-decoded value (the last one when a key repeats), and a field
\* without such a parameter stays empty.
C32_FirstMatchingScope ==
    location # <<>> =>
        IF Matching = {} THEN location[1] = EmptyLocation
        ELSE LET first == scopes[CHOOSE i \in Matching : \A j \in Matching : i <= j]
                 params == ParamsOf(QueryOf(first))
                 Claimed(field, key) ==
                     LET at == {i \in 1..Len(params) : params[i].key = <<key>>}
                     IN  /\ field.given <=> at # {}
                         /\ field.given =>
                                \E i \in at : /\ \A j \in at : j <= i
                                              /\ field.text = params[i].value
             IN  /\ location[1] = extract_location_from_scopes(<<first>>)
                 /\ Claimed(location[1].facility, "fac")
                 /\ Claimed(location[1].poc, "poc")
                 /\ Claimed(location[1].bed, "bed")
                 /\ Claimed(location[1].room, "rm")
                 /\ Claimed(location[1].building, "bldng")
                 /\ Claimed(location[1].floor, "flr")

\* the extraction ran on two matching scopes with different locations, the
\* first with an encoded value
C32_Witness ==
    /\ location # <<>>
    /\ Cardinality(Matching) = 2
    /\ LocationOf(scopes[1]) # LocationOf(scopes[2])
    /\ location[1].bed = Value(<<"B", " ", "1">>)
    /\ location[1].facility = Value(<<"ICU">>)

\* C35: when a fan-out has ended, every observer that is still registered
\* (it was registered when the fan-out began, and when its turn came) was
\* notified exactly once in it, also when an observer unregistered itself
\* or another observer from inside its callback.
C35_FanOutReachesRegistered ==
    \A d \in Deliverers :
        (dpc[d] = "done" /\ updated_metrics[d] # <<>>) =>
            \A i \in 1..Len(update_callbacks) :
                Cardinality({k \in 1..Len(notes[d]) :
                                notes[d][k].observer = update_callbacks[i]}) = 1

\* C39: every handle in _metric_history has a history of at least one and at
\* most max_points samples, so get_all_latest_metrics, also one that is
\* under way, maps no handle to None.
C39_HistoriesNonEmpty ==
    /\ \A h \in DOMAIN metric_history :
           /\ Len(metric_history[h]) >= 1
           /\ Len(metric_history[h]) <= MaxPoints
    /\ \A h \in DOMAIN get_all_latest_metrics : get_all_latest_metrics[h] # <<>>
    /\ \A h \in DOMAIN reader.result : reader.result[h] # <<>>

\* -------------------------------------------------------- registry claims
\* the observers of a list
Registered(list) == {list[i] : i \in 1..Len(list)}

\* C29: registering an observer that is registered leaves the list as it is
\* and registering another appends it, so no observer is listed twice and
\* each is notified once per batch; unregistering removes the observer, which
\* is notified by no later batch; unregistering an observer that is not
\* registered leaves the list as it is.
C29_IdentityRegistry ==
    /\ \A i, j \in 1..Len(update_callbacks) :
           i # j => update_callbacks[i] # update_callbacks[j]
    /\ registry_op.op = "register" =>
           update_callbacks =
               IF registry_op.observer \in Registered(registry_op.before)
               THEN registry_op.before
               ELSE Append(registry_op.before, registry_op.observer)
    /\ registry_op.op = "unregister" =>
           /\ registry_op.observer \notin Registered(update_callbacks)
           /\ registry_op.observer \notin Registered(registry_op.before)
                  => update_callbacks = registry_op.before
           /\ Registered(update_callbacks)
                  = Registered(registry_op.before) \ {registry_op.observer}
    /\ \A d \in Deliverers :
           /\ \A i \in 1..Len(notes[d]) :
                  notes[d][i].observer \in Registered(update_callbacks)
           /\ \A i, j \in 1..Len(notes[d]) :
                  i # j => notes[d][i].observer # notes[d][j].observer

\* an observer was registered a second time, and a batch delivered after it
\* notified every registered observer
C29_Witness ==
    /\ registry_op.op = "register"
    /\ registry_op.observer \in Registered(registry_op.before)
    /\ \E d \in Deliverers :
           /\ dpc[d] = "done"
           /\ notes[d] # <<>>
           /\ Len(notes[d]) = Len(update_callbacks)

====
